---- MODULE Spec2Model ----
(***************************************************************************)
(* A model of apollo.nvim's chunk index (src/C/chunks.c) and of the vector *)
(* kernels it calls (src/C/cosine_neon.c, src/C/cosine_simd.c).            *)
(*                                                                         *)
(* Single-precision values are modelled as fixed-point numbers with        *)
(* FScale units per 1.0, together with the IEEE-754 specials +Inf, -Inf    *)
(* and NaN, whose arithmetic and comparisons follow IEEE-754.              *)
(***************************************************************************)
EXTENDS Integers, Sequences, FiniteSets, TLC

\* ------------------------------------------------------------------ bounds
FScale == 64

\* --------------------------------------------------------- float32 values
Fin(n) == <<"fin", n>>
PInf == <<"inf", 1>>
NInf == <<"inf", -1>>
NaN == <<"nan", 0>>
FZero == Fin(0)
FOne == Fin(FScale)

IsNaN(a) == a[1] = "nan"
IsInf(a) == a[1] = "inf"
IsFin(a) == a[1] = "fin"
Sign(a) == IF a[2] > 0 THEN 1 ELSE IF a[2] < 0 THEN -1 ELSE 0

\* x / d rounded to nearest (d > 0)
RoundDiv(x, d) == (2 * x + d) \div (2 * d)

RECURSIVE ISqrtBetween(_, _, _)
ISqrtBetween(n, lo, hi) ==
  IF lo >= hi THEN lo
  ELSE LET mid == (lo + hi + 1) \div 2
       IN IF mid * mid <= n THEN ISqrtBetween(n, mid, hi)
          ELSE ISqrtBetween(n, lo, mid - 1)

\* floor of the square root of n >= 0
ISqrt(n) == ISqrtBetween(n, 0, IF n < 1024 THEN 32 ELSE 1024)

FMul(a, b) ==
  IF IsNaN(a) \/ IsNaN(b) THEN NaN
  ELSE IF IsInf(a) \/ IsInf(b)
       THEN IF Sign(a) * Sign(b) = 0 THEN NaN
            ELSE <<"inf", Sign(a) * Sign(b)>>
       ELSE Fin(RoundDiv(a[2] * b[2], FScale))

FAdd(a, b) ==
  IF IsNaN(a) \/ IsNaN(b) THEN NaN
  ELSE IF IsInf(a) /\ IsInf(b) THEN (IF a[2] = b[2] THEN a ELSE NaN)
  ELSE IF IsInf(a) THEN a
  ELSE IF IsInf(b) THEN b
  ELSE Fin(a[2] + b[2])

FNeg(a) == IF IsNaN(a) THEN NaN ELSE <<a[1], -a[2]>>
FSub(a, b) == FAdd(a, FNeg(b))

\* a < b, false as soon as one side is NaN
FLt(a, b) ==
  IF IsNaN(a) \/ IsNaN(b) THEN FALSE
  ELSE IF IsInf(a) THEN a[2] < 0 /\ ~(IsInf(b) /\ b[2] < 0)
  ELSE IF IsInf(b) THEN b[2] > 0
  ELSE a[2] < b[2]

FGt(a, b) == FLt(b, a)
FGe(a, b) == ~IsNaN(a) /\ ~IsNaN(b) /\ ~FLt(a, b)
FEq(a, b) == ~IsNaN(a) /\ ~IsNaN(b) /\ a = b

\* ------------------------------------------------- reciprocal square root
\* 1/sqrt(x): +Inf at 0, NaN below 0, 0 at +Inf (vrsqrteq_f32,
\* _mm512_rsqrt14_ps, _mm256_rsqrt_ps and 1.0f/sqrtf agree on these); the
\* finite case is the fixed-point value sqrt(FScale^3 / n), n < 2^20.
FRsqrt(x) ==
  IF IsNaN(x) THEN NaN
  ELSE IF IsInf(x) THEN (IF x[2] > 0 THEN FZero ELSE NaN)
  ELSE IF x[2] = 0 THEN PInf
  ELSE IF x[2] < 0 THEN NaN
  ELSE Fin(ISqrt((FScale * FScale * FScale) \div x[2]))

\* vrsqrtsq_f32(a, b) = (3 - a*b) / 2, and 1.5 when one operand is 0 and
\* the other an infinity
vrsqrts(a, b) ==
  IF IsNaN(a) \/ IsNaN(b) THEN NaN
  ELSE IF (IsInf(a) /\ b = FZero) \/ (IsInf(b) /\ a = FZero)
       THEN Fin((3 * FScale) \div 2)
       ELSE LET ab == FMul(a, b)
            IN IF IsInf(ab) THEN FNeg(ab)
               ELSE Fin(RoundDiv(3 * FScale - ab[2], 2))

FHalf == Fin(FScale \div 2)
FThree == Fin(3 * FScale)

\* ------------------------------------------------------- vector kernels
\* lane j of a Lanes-wide multiply-accumulate over the blocks i, i+Lanes, ...
RECURSIVE LaneAcc(_, _, _, _, _, _, _)
LaneAcc(acc, x, y, d, Lanes, j, i) ==
  IF i + Lanes > d THEN acc
  ELSE LaneAcc(FAdd(acc, FMul(x[i + j + 1], y[i + j + 1])), x, y, d, Lanes, j, i + Lanes)

RECURSIVE HAdd(_, _, _, _, _)
HAdd(x, y, d, Lanes, j) ==
  IF j = Lanes THEN FZero
  ELSE FAdd(LaneAcc(FZero, x, y, d, Lanes, j, 0), HAdd(x, y, d, Lanes, j + 1))

RECURSIVE TailAcc(_, _, _, _, _)
TailAcc(sum, x, y, d, i) ==
  IF i >= d THEN sum
  ELSE TailAcc(FAdd(sum, FMul(x[i + 1], y[i + 1])), x, y, d, i + 1)

\* vector main loop, horizontal add, scalar tail
MulAcc(x, y, d, Lanes) ==
  TailAcc(HAdd(x, y, d, Lanes, 0), x, y, d, d - (d % Lanes))

\* the result is widened to double, which changes no value
f32_dot_product_neon(x, y, size) == MulAcc(x, y, size, 4)

Scale(v, d, inv) == [i \in 1..Len(v) |-> IF i <= d THEN FMul(v[i], inv) ELSE v[i]]

\* one refinement as the NEON code calls it: y * vrsqrts(s * (y*y), y)
NeonRefine(s, y) == FMul(y, vrsqrts(FMul(s, FMul(y, y)), y))

norm_neon(v, d) ==
  LET sum == MulAcc(v, v, d, 4)
      y0 == FRsqrt(sum)
      y1 == NeonRefine(sum, y0)
      y2 == NeonRefine(sum, y1)
  IN Scale(v, d, y2)

\* one refinement as the AVX code writes it: y * ((3 - s*(y*y*0.5)) * 0.5)
AvxRefine(s, y) ==
  FMul(y, FMul(FSub(FThree, FMul(s, FMul(FMul(y, y), FHalf))), FHalf))

NormAvx(v, d, Lanes) ==
  LET sum == MulAcc(v, v, d, Lanes)
      y0 == FRsqrt(sum)
      y1 == AvxRefine(sum, y0)
      y2 == AvxRefine(sum, y1)
  IN IF FEq(sum, FZero) THEN v ELSE Scale(v, d, y2)

NormScalar(v, d) ==
  LET sum == MulAcc(v, v, d, 1)
  IN IF FEq(sum, FZero) THEN v ELSE Scale(v, d, FRsqrt(sum))

Variants == {"neon", "avx512", "avx2", "scalar"}

\* norm_simd as the build selects it
norm_simd(variant, v, d) ==
  CASE variant = "neon" -> norm_neon(v, d)
    [] variant = "avx512" -> NormAvx(v, d, 16)
    [] variant = "avx2" -> NormAvx(v, d, 8)
    [] OTHER -> NormScalar(v, d)

\* ---------------------------------------------------------------- memory
\* A memory cell is one byte.  The four bytes of a stored float keep the
\* value they encode (cell k of 4); a byte malloc never initialised is "u".
Byte(n) == [t |-> "b", n |-> n, v |-> FZero]
FCell(v, k) == [t |-> "f", n |-> k, v |-> v]
Uninit == [t |-> "u", n |-> 0, v |-> FZero]

\* uint32_t, in the byte order of the machine (little endian)
EncU32(n) ==
  << Byte(n % 256), Byte((n \div 256) % 256),
     Byte((n \div 65536) % 256), Byte((n \div 16777216) % 256) >>

EncF32(v) == << FCell(v, 0), FCell(v, 1), FCell(v, 2), FCell(v, 3) >>

EncStr(bytes) == [k \in 1..Len(bytes) |-> Byte(bytes[k])]

RECURSIVE EncVec(_)
EncVec(v) == IF v = <<>> THEN <<>> ELSE EncF32(Head(v)) \o EncVec(Tail(v))

InBounds(mem, off, n) == off >= 0 /\ off + n <= Len(mem)

IsU32(mem, off) ==
  InBounds(mem, off, 4) /\ \A k \in 1..4 : mem[off + k].t = "b"

DecU32(mem, off) ==
  mem[off + 1].n + 256 * mem[off + 2].n + 65536 * mem[off + 3].n
    + 16777216 * mem[off + 4].n

IsF32(mem, off) ==
  /\ InBounds(mem, off, 4)
  /\ \A k \in 1..4 : mem[off + k] = FCell(mem[off + 1].v, k - 1)

\* What the memory outside the buffer, and the bytes of it never written,
\* hold is not determined by the program: every such word holds the pattern
\* j, one of JunkPatterns, which reads as the integer j and as the float j.0.
\* The patterns still possible are all of them until a read meets one.
JunkPatterns == {0, 1}
JunkF32(j) == Fin(j * FScale)

\* the values *(uint32_t*)(base + off) can yield, J the patterns possible
U32Reads(mem, off, J) == IF IsU32(mem, off) THEN {DecU32(mem, off)} ELSE J

IsVec(mem, off, d) == \A k \in 0..(d - 1) : IsF32(mem, off + 4 * k)

\* the values of the d floats at base + off, under pattern j
VecRead(mem, off, d, j) ==
  [k \in 1..d |-> IF IsF32(mem, off + 4 * (k - 1)) THEN mem[off + 4 * (k - 1) + 1].v
                  ELSE JunkF32(j)]

\* the floats v stored at off; a store outside the buffer changes no cell of it
StoreVec(mem, off, v) ==
  [a \in 1..Len(mem) |->
     IF a > off /\ a <= off + 4 * Len(v)
     THEN FCell(v[((a - off - 1) \div 4) + 1], (a - off - 1) % 4)
     ELSE mem[a]]

\* the embedding a search reads through c->emb; bytes that hold no float
\* read as NaN
EmbAt(mem, off, d) ==
  [k \in 1..d |-> IF IsF32(mem, off + 4 * (k - 1)) THEN mem[off + 4 * (k - 1) + 1].v ELSE NaN]

\* ----------------------------------------------------------- corpus file
\* The layout ci_load reads: count, then per record four strings, two line
\* numbers, a string, dim and dim floats; a string is a length and its bytes.
EncLPStr(bytes) == EncU32(Len(bytes)) \o EncStr(bytes)

EncRecord(r) ==
  EncLPStr(r.id) \o EncLPStr(r.parent) \o EncLPStr(r.file) \o EncLPStr(r.ext)
    \o EncU32(r.start_ln) \o EncU32(r.end_ln) \o EncLPStr(r.text)
    \o EncU32(Len(r.emb)) \o EncVec(r.emb)

RECURSIVE EncRecords(_)
EncRecords(rs) == IF rs = <<>> THEN <<>> ELSE EncRecord(Head(rs)) \o EncRecords(Tail(rs))

Serialize(rs) == EncU32(Len(rs)) \o EncRecords(rs)

\* -------------------------------------------------------------- variables
VARIABLES
  want,     \* the records the corpus file was written from
  file,     \* the bytes of the file on disk
  io,       \* what fopen/fread did: "none", "nofile", "short", "ok"
  lpc,      \* ci_load's position
  arena,    \* ci->arena.base[0 .. sz-1]
  p,        \* the parse cursor, as an offset from arena.base
  N,        \* ci->N
  chunks,   \* ci->chunks
  ri,       \* the loop index i of ci_load
  oob,      \* ci_load has accessed a byte outside the buffer
  junk,     \* the patterns the memory the program never wrote may hold
  live,     \* allocations of ci_load not yet freed
  ret,      \* what ci_load returned: "none", "NULL", "ci"
  view,     \* the last accessor call and what it returned
  norm,     \* a normalize call: variant, input, output
  threads,  \* the threads that call ci_search
  pc,       \* per thread: "idle", "scan", "done", "fault"
  frame,    \* per thread: the arguments and locals of its ci_search call
  heapMem,  \* the memory of each calloc'ed selector array
  hlive,    \* the selector arrays not yet freed
  out,      \* per thread: the return value and the out_i / out_s it filled
  lim,      \* the bounds on the calls made: largest K, calls in all by
            \* the threads that call more than once
  hist      \* history of the search calls

corpusVars == <<arena, N, chunks>>
loadVars == <<want, file, io, lpc, p, ri, oob, junk, live, ret, view>>
searchVars == <<threads, pc, frame, heapMem, hlive, out, lim, hist>>
vars == <<want, file, io, lpc, arena, p, N, chunks, ri, oob, junk, live, ret, view,
          norm, threads, pc, frame, heapMem, hlive, out, lim, hist>>

\* ---------------------------------------------------------------- ci_load
NULL == -1

StrFields == {"id", "parent", "file", "ext", "text"}
NumFields == {"start_ln", "end_ln", "dim"}

\* the order of the reads of one loop iteration
AfterField(f) ==
  CASE f = "id" -> "parent"
    [] f = "parent" -> "file"
    [] f = "file" -> "ext"
    [] f = "ext" -> "start_ln"
    [] f = "start_ln" -> "end_ln"
    [] f = "end_ln" -> "text"
    [] f = "text" -> "dim"
    [] f = "dim" -> "emb"

\* calloc(N, sizeof(Chunk)): every field zero
ZeroChunk ==
  [id |-> NULL, parent |-> NULL, file |-> NULL, ext |-> NULL, text |-> NULL,
   start_ln |-> 0, end_ln |-> 0, dim |-> 0, emb |-> NULL]

\* whether the access ci_load makes next touches a byte outside the buffer
NextAccessOOB ==
  IF lpc = "emb"
  THEN chunks[ri + 1].dim > 0 /\ ~InBounds(arena, p, 4 * chunks[ri + 1].dim)
  ELSE ~InBounds(arena, p, 4)

\* fopen fails: return NULL
LoadOpenFail ==
  /\ lpc = "start"
  /\ io' = "nofile"
  /\ ret' = "NULL"
  /\ lpc' = "returned"
  /\ UNCHANGED <<want, file, p, ri, oob, junk, live, view, corpusVars, norm, searchVars>>

\* the byte counts fread is taken to deliver: all, or one of three short counts
ReadCounts(n) == {n} \cup ({0, n \div 2, n - 1} \cap 0..n)

\* malloc(filesize); fread, which stores the first r bytes of the file and
\* whose return value is not looked at
LoadSlurp ==
  /\ lpc = "start"
  /\ \E r \in ReadCounts(Len(file)) :
       /\ arena' = [k \in 1..Len(file) |-> IF k <= r THEN file[k] ELSE Uninit]
       /\ io' = IF r = Len(file) THEN "ok" ELSE "short"
  /\ live' = {"buf"}
  /\ p' = 0
  /\ lpc' = "count"
  /\ UNCHANGED <<want, file, ri, oob, junk, ret, view, N, chunks, norm, searchVars>>

\* N = *(uint32_t*)p; p += 4; the two callocs
LoadCount ==
  /\ lpc = "count"
  /\ \E n \in U32Reads(arena, p, junk) :
       /\ N' = n
       /\ chunks' = [k \in 1..n |-> ZeroChunk]
       /\ lpc' = IF n = 0 THEN "ret" ELSE "id"
       /\ junk' = IF IsU32(arena, p) THEN junk ELSE {n}
  /\ oob' = (oob \/ NextAccessOOB)
  /\ p' = p + 4
  /\ ri' = 0
  /\ live' = live \cup {"ci", "chunks"}
  /\ UNCHANGED <<want, file, io, ret, view, arena, norm, searchVars>>

\* c->f = read_str(&ci->arena, &p)
LoadStr ==
  /\ lpc \in StrFields
  /\ \E L \in U32Reads(arena, p, junk) :
       /\ p' = p + 4 + L
       /\ junk' = IF IsU32(arena, p) THEN junk ELSE {L}
  /\ chunks' = [chunks EXCEPT ![ri + 1][lpc] = p + 4]
  /\ oob' = (oob \/ NextAccessOOB)
  /\ lpc' = AfterField(lpc)
  /\ UNCHANGED <<want, file, io, ri, live, ret, view, arena, N, norm, searchVars>>

\* c->f = *(uint32_t*)p; p += 4
LoadU32 ==
  /\ lpc \in NumFields
  /\ \E n \in U32Reads(arena, p, junk) :
       /\ chunks' = [chunks EXCEPT ![ri + 1][lpc] = n]
       /\ junk' = IF IsU32(arena, p) THEN junk ELSE {n}
  /\ oob' = (oob \/ NextAccessOOB)
  /\ p' = p + 4
  /\ lpc' = AfterField(lpc)
  /\ UNCHANGED <<want, file, io, ri, live, ret, view, arena, N, norm, searchVars>>

\* c->emb = (float*)p; norm_neon(c->emb, c->dim); p += sizeof(float)*c->dim
LoadEmb ==
  /\ lpc = "emb"
  /\ LET d == chunks[ri + 1].dim
     IN /\ \E j \in junk :
             /\ arena' = StoreVec(arena, p, norm_neon(VecRead(arena, p, d, j), d))
             /\ junk' = IF IsVec(arena, p, d) THEN junk ELSE {j}
        /\ p' = p + 4 * d
  /\ chunks' = [chunks EXCEPT ![ri + 1].emb = p]
  /\ oob' = (oob \/ NextAccessOOB)
  /\ ri' = ri + 1
  /\ lpc' = IF ri + 1 < N THEN "id" ELSE "ret"
  /\ UNCHANGED <<want, file, io, live, ret, view, N, norm, searchVars>>

\* an access outside the buffer may also end the process
LoadFault ==
  /\ lpc \in {"count", "emb"} \cup StrFields \cup NumFields
  /\ NextAccessOOB
  /\ oob' = TRUE
  /\ lpc' = "fault"
  /\ UNCHANGED <<want, file, io, p, ri, junk, live, ret, view, corpusVars, norm, searchVars>>

\* return ci
LoadReturn ==
  /\ lpc = "ret"
  /\ ret' = "ci"
  /\ lpc' = "returned"
  /\ UNCHANGED <<want, file, io, p, ri, oob, junk, live, view, corpusVars, norm, searchVars>>

\* ci_free: the arena, the table and the handle
ci_free ==
  /\ lpc = "returned"
  /\ ret = "ci"
  /\ live' = {}
  /\ lpc' = "freed"
  /\ UNCHANGED <<want, file, io, p, ri, oob, junk, ret, view, corpusVars, norm, searchVars>>

\* -------------------------------------------------------------- accessors
ci_get_id(i) == chunks[i + 1].id
ci_get_parent(i) == chunks[i + 1].parent
ci_get_file(i) == chunks[i + 1].file
ci_get_ext(i) == chunks[i + 1].ext
ci_get_start(i) == chunks[i + 1].start_ln
ci_get_end(i) == chunks[i + 1].end_ln
ci_get_text(i) == chunks[i + 1].text

\* the string a const char* denotes: the bytes from the pointer up to the
\* first zero byte
RECURSIVE CStr(_, _)
CStr(mem, off) ==
  IF ~InBounds(mem, off, 1) THEN <<>>
  ELSE IF mem[off + 1].t # "b" \/ mem[off + 1].n = 0 THEN <<>>
  ELSE <<mem[off + 1].n>> \o CStr(mem, off + 1)

StrGetter(f, i) ==
  CASE f = "id" -> ci_get_id(i)
    [] f = "parent" -> ci_get_parent(i)
    [] f = "file" -> ci_get_file(i)
    [] f = "ext" -> ci_get_ext(i)
    [] f = "text" -> ci_get_text(i)

NoView == [i |-> 0, f |-> "none", ptr |-> NULL, val |-> <<>>]

\* a caller reads one string field of record i
GetStr ==
  /\ lpc = "returned"
  /\ ret = "ci"
  /\ \E i \in 0..(N - 1), f \in StrFields :
       view' = [i |-> i, f |-> f, ptr |-> StrGetter(f, i),
                val |-> CStr(arena, StrGetter(f, i))]
  /\ UNCHANGED <<want, file, io, lpc, p, ri, oob, junk, live, ret, corpusVars, norm, searchVars>>

\* a caller reads the two line numbers of record i
GetLines ==
  /\ lpc = "returned"
  /\ ret = "ci"
  /\ \E i \in 0..(N - 1) :
       /\ view' = [i |-> i, f |-> "lines", ptr |-> NULL,
                   val |-> <<ci_get_start(i), ci_get_end(i)>>]
  /\ UNCHANGED <<want, file, io, lpc, p, ri, oob, junk, live, ret, corpusVars, norm, searchVars>>

\* ------------------------------------------------------- the load machine
MaxRecs == 2

\* the records corpus files are written from
RecChoices ==
  { [id |-> <<>>, parent |-> <<>>, file |-> <<>>, ext |-> <<>>,
     start_ln |-> 0, end_ln |-> 0, text |-> <<>>, emb |-> <<>>],
    [id |-> <<97>>, parent |-> <<98, 99>>, file |-> <<102>>, ext |-> <<>>,
     start_ln |-> 1, end_ln |-> 300, text |-> <<116>>, emb |-> <<FOne, FZero>>],
    [id |-> <<97, 0, 98>>, parent |-> <<>>, file |-> <<102>>, ext |-> <<99>>,
     start_ln |-> 7, end_ln |-> 7, text |-> <<>>, emb |-> <<FZero>>] }

RECURSIVE SeqsUpTo(_, _)
SeqsUpTo(S, n) ==
  IF n = 0 THEN {<<>>}
  ELSE SeqsUpTo(S, n - 1) \cup
       {Append(s, x) : s \in {t \in SeqsUpTo(S, n - 1) : Len(t) = n - 1}, x \in S}

NoNorm == [variant |-> "none", in |-> <<>>, out |-> <<>>]

NoHist == [calls |-> 0, seen |-> {}, overlap |-> <<>>, hoob |-> FALSE]

NoSearch ==
  /\ threads = {}
  /\ pc = <<>>
  /\ frame = <<>>
  /\ heapMem = <<>>
  /\ hlive = {}
  /\ out = <<>>
  /\ lim = [K |-> 0, calls |-> 0]
  /\ hist = NoHist

\* a corpus file, whole or cut short, before ci_load is called on it
InitLoad ==
  /\ want \in SeqsUpTo(RecChoices, MaxRecs)
  /\ \E cut \in 0..Len(Serialize(want)) : file = SubSeq(Serialize(want), 1, cut)
  /\ io = "none"
  /\ lpc = "start"
  /\ arena = <<>>
  /\ p = 0
  /\ N = 0
  /\ chunks = <<>>
  /\ ri = 0
  /\ oob = FALSE
  /\ junk = JunkPatterns
  /\ live = {}
  /\ ret = "none"
  /\ view = NoView
  /\ norm = NoNorm
  /\ NoSearch

NextLoad ==
  \/ LoadOpenFail
  \/ LoadSlurp
  \/ LoadCount
  \/ LoadStr
  \/ LoadU32
  \/ LoadEmb
  \/ LoadFault
  \/ LoadReturn
  \/ ci_free
  \/ GetStr
  \/ GetLines

SpecLoad == InitLoad /\ [][NextLoad]_vars

WellFormed == file = Serialize(want)

\* ------------------------------------------------------- the loaded corpus
\* What ci_load leaves behind for a whole file that was read in full: the
\* table of descriptors, by the offsets of the layout, and the arena with
\* every embedding normalised in place.
ChunkAt(r, off) ==
  LET o1 == off + 4
      o2 == o1 + Len(r.id) + 4
      o3 == o2 + Len(r.parent) + 4
      o4 == o3 + Len(r.file) + 4
      o5 == o4 + Len(r.ext) + 12
      o6 == o5 + Len(r.text) + 4
  IN [id |-> o1, parent |-> o2, file |-> o3, ext |-> o4, text |-> o5,
      start_ln |-> r.start_ln, end_ln |-> r.end_ln, dim |-> Len(r.emb), emb |-> o6]

RECURSIVE ChunksFrom(_, _)
ChunksFrom(rs, off) ==
  IF rs = <<>> THEN <<>>
  ELSE <<ChunkAt(Head(rs), off)>> \o ChunksFrom(Tail(rs), off + Len(EncRecord(Head(rs))))

ImageChunks(rs) == ChunksFrom(rs, 4)

ImageArena(rs) ==
  Serialize([k \in 1..Len(rs) |-> [rs[k] EXCEPT !.emb = norm_neon(@, Len(@))]])

\* ci_load on a whole file read in full yields that image
LoadImage ==
  (lpc = "returned" /\ ret = "ci" /\ WellFormed /\ io = "ok")
    => /\ ~oob
       /\ N = Len(want)
       /\ chunks = ImageChunks(want)
       /\ arena = ImageArena(want)

\* C3: ci_load checks every length, fixed-width field and dim against the
\* bytes left in the buffer: on a file that ends before the layout does
\* (one shorter than 4 bytes included) it touches no byte outside the buffer
\* and reports failure.
C3_LoadValidates ==
  (io = "ok" /\ ~WellFormed)
    => /\ ~oob
       /\ lpc # "fault"
       /\ (lpc = "returned" => ret = "NULL")

\* C4: when the file cannot be opened or cannot be read in full, ci_load
\* returns NULL and has released every buffer it allocated.
C4_IoFailureReported ==
  (lpc = "returned" /\ io \in {"nofile", "short"})
    => (ret = "NULL" /\ live = {})

\* what a whole corpus file holds for the field the last accessor call read
Written ==
  IF view.f = "lines"
  THEN <<want[view.i + 1].start_ln, want[view.i + 1].end_ln>>
  ELSE want[view.i + 1][view.f]

\* C9: after ci_load of a well-formed file, every accessor gives back
\* exactly the bytes of the string written (no more and no fewer than its
\* length), and the two line numbers written.
C9_RoundTrip ==
  (WellFormed /\ io = "ok" /\ view.f # "none") => view.val = Written

\* ------------------------------------------------------------- normalize
MaxNormDim == 5

NormVals == {FZero, FOne, Fin(-FScale)}

RECURSIVE VecsOfLen(_, _)
VecsOfLen(S, n) ==
  IF n = 0 THEN {<<>>}
  ELSE {Append(v, x) : v \in VecsOfLen(S, n - 1), x \in S}

\* a vector and the build's variant of norm_simd, before the call
InitNorm ==
  /\ \E vt \in Variants, d \in 0..MaxNormDim :
       \E v \in VecsOfLen(NormVals, d) : norm = [variant |-> vt, in |-> v, out |-> <<>>]
  /\ want = <<>>
  /\ file = <<>>
  /\ io = "none"
  /\ lpc = "none"
  /\ arena = <<>>
  /\ p = 0
  /\ N = 0
  /\ chunks = <<>>
  /\ ri = 0
  /\ oob = FALSE
  /\ junk = JunkPatterns
  /\ live = {}
  /\ ret = "none"
  /\ view = NoView
  /\ NoSearch

\* norm_simd(v, d), in place
NormCall ==
  /\ lpc = "none"
  /\ norm.variant \in Variants
  /\ norm' = [norm EXCEPT !.out = norm_simd(norm.variant, norm.in, Len(norm.in))]
  /\ lpc' = "normalized"
  /\ UNCHANGED <<want, file, io, p, ri, oob, junk, live, ret, view, corpusVars, searchVars>>

NextNorm == NormCall

SpecNorm == InitNorm /\ [][NextNorm]_vars

\* C5: normalizing a vector whose sum of squares is exactly 0 leaves every
\* component unchanged and yields no NaN and no Inf, under norm_neon as
\* under every variant of norm_simd.
C5_ZeroVectorUnchanged ==
  (lpc = "normalized" /\ \A k \in 1..Len(norm.in) : norm.in[k] = FZero)
    => /\ norm.out = norm.in
       /\ \A k \in 1..Len(norm.out) : IsFin(norm.out[k])

\* --------------------------------------------------------------- ci_search
Pair(score, idx) == [score |-> score, idx |-> idx]

\* calloc(K, sizeof(Pair)): K zeroed pairs
ZeroHeap(K) == [j \in 1..K |-> Pair(FZero, 0)]

Swap(h, a, b) == [h EXCEPT ![a] = h[b], ![b] = h[a]]

\* the loop of sift_down from position i (h[j] of the code is h[j + 1] here)
RECURSIVE SiftFrom(_, _, _)
SiftFrom(h, K, i) ==
  LET c0 == 2 * i + 1
      c == IF c0 + 1 < K /\ FLt(h[c0 + 2].score, h[c0 + 1].score) THEN c0 + 1 ELSE c0
  IN IF c0 >= K THEN h
     ELSE IF FLt(h[c + 1].score, h[i + 1].score)
          THEN SiftFrom(Swap(h, i + 1, c + 1), K, c)
          ELSE h

\* sift_down(h, K) starts at the root, whatever the caller's loop index
sift_down(h, K) == SiftFrom(h, K, 0)

\* the first value of p in "for (int p = (K - 2) / 2; p >= 0; p--)", K >= 1:
\* K - 2 is computed in uint32_t, so K = 1 gives 0xFFFFFFFF / 2
BuildStart(K) == IF K >= 2 THEN (K - 2) \div 2 ELSE 2147483647

\* the build loop: sift_down(heap, K) once for each p from the start down to
\* 0.  sift_down is a function of the array alone, so once a call changes
\* nothing the remaining calls change nothing either.
RECURSIVE BuildFrom(_, _, _)
BuildFrom(h, K, pp) ==
  IF pp < 0 THEN h
  ELSE LET h2 == sift_down(h, K)
       IN IF h2 = h THEN h ELSE BuildFrom(h2, K, pp - 1)

\* lines 121-132 for a scored record, K >= 1
Offer(h, sz, K, sc, i) ==
  IF sz < K
  THEN LET h1 == [h EXCEPT ![sz + 1] = Pair(sc, i)]
       IN [heap |-> IF sz + 1 = K THEN BuildFrom(h1, K, BuildStart(K)) ELSE h1,
           sz |-> sz + 1]
  ELSE IF FGt(sc, h[1].score)
       THEN [heap |-> sift_down([h EXCEPT ![1] = Pair(sc, i)], K), sz |-> sz]
       ELSE [heap |-> h, sz |-> sz]

\* the dimension test left out
Eligible_any(c, dim) == TRUE

\* if (c->dim != dim) continue;
Eligible(c, dim) == c.dim = dim

Score(mem, c, q, dim) == f32_dot_product_neon(q, EmbAt(mem, c.emb, dim), dim)

\* one iteration of the scan, for record i
ScanRecord(mem, cs, q, dim, K, h, sz, i) ==
  IF ~Eligible(cs[i + 1], dim) THEN [heap |-> h, sz |-> sz]
  ELSE IF K = 0 THEN [heap |-> h, sz |-> sz]
  ELSE Offer(h, sz, K, Score(mem, cs[i + 1], q, dim), i)

\* heap[j]; a slot past the K allocated holds no pair the call stored
HeapAt(h, j) == IF j < Len(h) THEN h[j + 1] ELSE Pair(NaN, 0)

\* all K slots copied out and K returned, filled or not
SearchResult_padded(h, sz, K) ==
  [n |-> K,
   idx |-> [j \in 1..K |-> HeapAt(h, j - 1).idx],
   sc |-> [j \in 1..K |-> HeapAt(h, j - 1).score]]

\* the copy to out_i / out_s and the return value
SearchResult(h, sz, K) ==
  [n |-> sz,
   idx |-> [j \in 1..sz |-> HeapAt(h, j - 1).idx],
   sc |-> [j \in 1..sz |-> HeapAt(h, j - 1).score]]

\* sz kept in static storage: a call starts from the count the last one left
sz_init_static(t) == frame[t].sz

\* uint32_t sz = 0
sz_init(t) == 0

\* one static selector array for every call
calloc_static(inuse) == 1

\* calloc hands out a block that is not in use
calloc(inuse) == CHOOSE a \in 1..(Cardinality(inuse) + 1) : a \notin inuse

NoFrame == [q |-> <<>>, dim |-> 0, K |-> 0, hp |-> 0, sz |-> 0, i |-> 0]
NoOut == [n |-> 0, idx |-> <<>>, sc |-> <<>>]

\* the query vectors callers pass, each of its own dimension
Queries == {<<FOne, FZero>>, <<FOne>>}

Others(t) == threads \ {t}

\* a thread enters ci_search, for the first time or again:
\* heap = calloc(K, sizeof(Pair)), sz = 0
SearchCall(t) ==
  /\ t \in threads
  /\ pc[t] = "idle" \/ (pc[t] = "done" /\ hist.calls < lim.calls)
  /\ \E q \in Queries, K \in 0..lim.K :
       LET a == calloc(hlive)
       IN /\ frame' = [frame EXCEPT ![t] =
                         [q |-> q, dim |-> Len(q), K |-> K, hp |-> a, sz |-> sz_init(t), i |-> 0]]
          /\ heapMem' = [heapMem EXCEPT ![a] = ZeroHeap(K)]
          /\ hlive' = hlive \cup {a}
  /\ pc' = [pc EXCEPT ![t] = "scan"]
  /\ hist' = [hist EXCEPT !.calls = @ + 1, !.overlap[t] = FALSE]
  /\ UNCHANGED <<out, lim, threads, corpusVars, loadVars, norm>>

\* history: the threads whose scan, begun and not yet over, a step of t
\* falls into
Overlap(t) ==
  [u \in threads |->
     hist.overlap[u] \/ (u # t /\ pc[u] = "scan" /\ frame[u].i >= 1 /\ frame[u].i < N)]

\* the scan reaches a record whose access to the selector is inside it
InSelector(t) == frame[t].K > 0 \/ ~Eligible(chunks[frame[t].i + 1], frame[t].dim)

\* one iteration of the for loop over the records
ScanStep(t) ==
  /\ t \in threads
  /\ pc[t] = "scan"
  /\ frame[t].i < N
  /\ InSelector(t)
  /\ LET f == frame[t]
         r == ScanRecord(arena, chunks, f.q, f.dim, f.K, heapMem[f.hp], f.sz, f.i)
     IN /\ heapMem' = [heapMem EXCEPT ![f.hp] = r.heap]
        /\ frame' = [frame EXCEPT ![t].sz = r.sz, ![t].i = f.i + 1]
  /\ hist' = [hist EXCEPT !.overlap = Overlap(t)]
  /\ UNCHANGED <<pc, hlive, out, lim, threads, corpusVars, loadVars, norm>>

\* K = 0 and an eligible record: sz < K is false, and heap[0] of a
\* zero-length allocation is compared and possibly assigned.  Whatever the
\* comparison reads, sz stays 0 and sift_down(heap, 0) returns at once.
ScanZeroK(t) ==
  /\ t \in threads
  /\ pc[t] = "scan"
  /\ frame[t].i < N
  /\ ~InSelector(t)
  /\ frame' = [frame EXCEPT ![t].i = @ + 1]
  /\ hist' = [hist EXCEPT !.hoob = TRUE,
                          !.overlap = Overlap(t)]
  /\ UNCHANGED <<pc, heapMem, hlive, out, lim, threads, corpusVars, loadVars, norm>>

\* ... or the access to heap[0] ends the process
ScanFault(t) ==
  /\ t \in threads
  /\ pc[t] = "scan"
  /\ frame[t].i < N
  /\ ~InSelector(t)
  /\ pc' = [u \in threads |-> "fault"]
  /\ hist' = [hist EXCEPT !.hoob = TRUE]
  /\ UNCHANGED <<frame, heapMem, hlive, out, lim, threads, corpusVars, loadVars, norm>>

\* the output loop, free(heap), return sz
SearchReturn(t) ==
  /\ t \in threads
  /\ pc[t] = "scan"
  /\ frame[t].i = N
  /\ LET f == frame[t]
         res == SearchResult(heapMem[f.hp], f.sz, f.K)
     IN /\ out' = [out EXCEPT ![t] = res]
        /\ hlive' = hlive \ {f.hp}
        /\ hist' = [hist EXCEPT !.seen = @ \cup {[q |-> f.q, dim |-> f.dim, K |-> f.K, res |-> res]}]
  /\ pc' = [pc EXCEPT ![t] = "done"]
  /\ UNCHANGED <<frame, heapMem, lim, threads, corpusVars, loadVars, norm>>

\* the thread identities there are; threads holds those that run
Threads == {1, 2}

NextSearch ==
  \/ \E t \in Threads : SearchCall(t)
  \/ \E t \in Threads : ScanStep(t)
  \/ \E t \in Threads : ScanZeroK(t)
  \/ \E t \in Threads : ScanFault(t)
  \/ \E t \in Threads : SearchReturn(t)

\* ----------------------------------------------------- the search machine
MaxN == 4
MaxK == 3
TopKN == 5
TopKK == 4
ConcN == 2
ConcK == 2
SeqN == 2
SeqK == 1
MaxCalls == 3

\* a record with the embedding e and nothing else
EmbRecord(e) ==
  [id |-> <<>>, parent |-> <<>>, file |-> <<>>, ext |-> <<>>,
   start_ln |-> 0, end_ln |-> 0, text |-> <<>>, emb |-> e]

UnitX == <<FOne, FZero>>
UnitY == <<FZero, FOne>>
Diag == <<FOne, FOne>>
NegX == <<Fin(-FScale), FZero>>
Zero2 == <<FZero, FZero>>
One1 == <<FOne>>

\* the state ci_load returns in, for a whole file of at most maxN records
\* with embeddings from embs, and nthreads threads that have not called yet
\* (each calls once, or they make ncalls calls in all)
InitSearch(embs, maxN, maxK, nthreads, ncalls) ==
  /\ want \in SeqsUpTo({EmbRecord(e) : e \in embs}, maxN)
  /\ file = Serialize(want)
  /\ io = "ok"
  /\ lpc = "returned"
  /\ arena = ImageArena(want)
  /\ p = Len(file)
  /\ N = Len(want)
  /\ chunks = ImageChunks(want)
  /\ ri = Len(want)
  /\ oob = FALSE
  /\ junk = JunkPatterns
  /\ live = {"buf", "ci", "chunks"}
  /\ ret = "ci"
  /\ view = NoView
  /\ norm = NoNorm
  /\ threads = 1..nthreads
  /\ pc = [t \in 1..nthreads |-> "idle"]
  /\ frame = [t \in 1..nthreads |-> NoFrame]
  /\ heapMem = [a \in 1..nthreads |-> <<>>]
  /\ hlive = {}
  /\ out = [t \in 1..nthreads |-> NoOut]
  /\ lim = [K |-> maxK, calls |-> ncalls]
  /\ hist = [calls |-> 0, seen |-> {}, overlap |-> [t \in 1..nthreads |-> FALSE],
             hoob |-> FALSE]

\* one call on a corpus that may hold zero vectors and mixed dimensions
SpecSearch ==
  InitSearch({UnitX, UnitY, NegX, Zero2, One1}, MaxN, MaxK, 1, 0) /\ [][NextSearch]_vars

\* one call on a corpus of non-zero vectors
SpecTopK ==
  InitSearch({UnitX, UnitY, Diag, NegX}, TopKN, TopKK, 1, 0) /\ [][NextSearch]_vars

\* two threads that each call ci_search once on the same corpus
SpecConc ==
  InitSearch({UnitX, UnitY, One1}, ConcN, ConcK, 2, 0) /\ [][NextSearch]_vars

\* one thread that calls ci_search MaxCalls times, one call after the other
SpecSeq ==
  InitSearch({UnitX, UnitY, One1}, SeqN, SeqK, 1, MaxCalls) /\ [][NextSearch]_vars

\* the state InitSearch starts from is the one ci_load ends in
LoadEndState ==
  (lpc = "returned" /\ ret = "ci" /\ WellFormed /\ io = "ok")
    => /\ p = Len(file)
       /\ ri = Len(want)
       /\ junk = JunkPatterns
       /\ live = {"buf", "ci", "chunks"}

Min(a, b) == IF a <= b THEN a ELSE b

EligibleCount(dim) == Cardinality({i \in 1..N : Eligible(chunks[i], dim)})

Returned(t) == {out[t].idx[j] : j \in 1..Len(out[t].idx)}

\* C1: when ci_search returns, every returned hit's score is >= the score
\* of every eligible record that was not returned.
C1_TopK ==
  \A t \in threads :
    pc[t] = "done" =>
      \A j \in 1..out[t].n, i \in 0..(N - 1) :
        (Eligible(chunks[i + 1], frame[t].dim) /\ i \notin Returned(t))
          => FGe(out[t].sc[j], Score(arena, chunks[i + 1], frame[t].q, frame[t].dim))

\* C2: the count ci_search returns is min(K, number of eligible records),
\* and exactly that many entries are filled: 0 for K = 0 and for an empty
\* corpus, no padding when K exceeds the eligible records.
C2_HitCount ==
  \A t \in threads :
    pc[t] = "done" =>
      /\ out[t].n = Min(frame[t].K, EligibleCount(frame[t].dim))
      /\ Len(out[t].idx) = out[t].n
      /\ Len(out[t].sc) = out[t].n

C2_Witness ==
  \E t \in threads :
    /\ pc[t] = "done"
    /\ EligibleCount(frame[t].dim) >= 1
    /\ frame[t].K > EligibleCount(frame[t].dim)
    /\ N > EligibleCount(frame[t].dim)
    /\ out[t].n = EligibleCount(frame[t].dim)

\* C6: every index ci_search returns is that of a record whose stored
\* dimension equals the query's.
C6_OnlyMatchingDim ==
  \A t \in threads :
    pc[t] = "done" =>
      \A j \in 1..Len(out[t].idx) : chunks[out[t].idx[j] + 1].dim = frame[t].dim

C6_Witness ==
  \E t \in threads :
    /\ pc[t] = "done"
    /\ out[t].n >= 1
    /\ frame[t].K >= N
    /\ N >= 2
    /\ chunks[1].dim # frame[t].dim

IsMinHeap(h, K) ==
  \A j \in 0..(K - 1) :
    \A c \in {2 * j + 1, 2 * j + 2} : c < K => ~FLt(h[c + 1].score, h[j + 1].score)

\* C10: from the moment K entries are present, the selector array is a
\* min-heap: each entry's score is <= the scores of its children.
C10_MinHeap ==
  \A t \in threads :
    (pc[t] = "scan" /\ frame[t].K >= 1 /\ frame[t].sz = frame[t].K)
      => IsMinHeap(heapMem[frame[t].hp], frame[t].K)

\* ci_search run alone, from a fresh selector, over the records i, i+1, ...
RECURSIVE ScanFrom(_, _, _, _, _, _)
ScanFrom(q, dim, K, h, sz, i) ==
  IF i >= N THEN SearchResult(h, sz, K)
  ELSE LET r == ScanRecord(arena, chunks, q, dim, K, h, sz, i)
       IN ScanFrom(q, dim, K, r.heap, r.sz, i + 1)

ci_search_alone(q, dim, K) == ScanFrom(q, dim, K, ZeroHeap(K), 0, 0)

\* C7: whatever the interleaving of the steps of concurrent calls, each
\* call returns the count, indices and scores it returns when run alone.
C7_Isolated ==
  \A t \in threads :
    pc[t] = "done" => out[t] = ci_search_alone(frame[t].q, frame[t].dim, frame[t].K)

C7_Witness ==
  \E t \in threads, u \in threads :
    /\ t # u
    /\ pc[t] = "done"
    /\ pc[u] = "done"
    /\ hist.overlap[t]
    /\ hist.overlap[u]
    /\ out[t].n >= 1
    /\ out[u].n >= 1
    /\ out[t] # out[u]

SameCall(a, b) == a.q = b.q /\ a.dim = b.dim /\ a.K = b.K

\* C8: the calls of ci_search leave N, every descriptor and every arena
\* byte as ci_load left them, and calls with the same (query, dim, K) return
\* the same result however many calls came before.
C8_ReadOnlyIndependent ==
  /\ N = Len(want)
  /\ chunks = ImageChunks(want)
  /\ arena = ImageArena(want)
  /\ \A a \in hist.seen, b \in hist.seen : SameCall(a, b) => a.res = b.res

C8_Witness ==
  /\ hist.calls >= 3
  /\ \A t \in threads : pc[t] = "done"
  /\ Cardinality(hist.seen) = 2
  /\ \A a \in hist.seen : a.res.n >= 1

\* ------------------------------------------- the selector slots a call touches

\* the slots j of h[j] that the loop of sift_down reads or writes from position i
RECURSIVE SiftSlots(_, _, _)
SiftSlots(h, K, i) ==
  LET c0 == 2 * i + 1
      c == IF c0 + 1 < K /\ FLt(h[c0 + 2].score, h[c0 + 1].score) THEN c0 + 1 ELSE c0
  IN IF c0 >= K THEN {}
     ELSE {c0, i} \cup (IF c0 + 1 < K THEN {c0 + 1} ELSE {})
            \cup (IF FLt(h[c + 1].score, h[i + 1].score)
                  THEN SiftSlots(Swap(h, i + 1, c + 1), K, c)
                  ELSE {})

\* the slots the calls of sift_down in the build loop touch
RECURSIVE BuildSlots(_, _, _)
BuildSlots(h, K, pp) ==
  IF pp < 0 THEN {}
  ELSE LET h2 == sift_down(h, K)
       IN SiftSlots(h, K, 0) \cup (IF h2 = h THEN {} ELSE BuildSlots(h2, K, pp - 1))

\* the slots lines 121-132 touch for a scored record, for every K: with
\* sz < K false the code compares with heap[0] whatever K is
OfferSlots(h, sz, K, sc, i) ==
  IF sz < K
  THEN {sz} \cup (IF sz + 1 = K
                  THEN BuildSlots([h EXCEPT ![sz + 1] = Pair(sc, i)], K, BuildStart(K))
                  ELSE {})
  ELSE {0} \cup (IF K >= 1 /\ FGt(sc, h[1].score)
                 THEN SiftSlots([h EXCEPT ![1] = Pair(sc, i)], K, 0)
                 ELSE {})

\* the slots the iteration for record frame[t].i touches
ScanSlots(t) ==
  LET f == frame[t]
  IN IF ~Eligible(chunks[f.i + 1], f.dim) THEN {}
     ELSE OfferSlots(heapMem[f.hp], f.sz, f.K, Score(arena, chunks[f.i + 1], f.q, f.dim), f.i)

\* the slots the output loop reads: for (j = 0; j < sz; j++)
CopySlots(t) == 0..(frame[t].sz - 1)

\* the slots the next step of the call touches
SlotsAhead(t) == IF frame[t].i < N THEN ScanSlots(t) ELSE CopySlots(t)

\* with K >= 1 every access of the call is inside the K slots
SlotsInBoundsPositiveK ==
  \A t \in threads :
    (pc[t] = "scan" /\ frame[t].K >= 1) => \A j \in SlotsAhead(t) : j < frame[t].K

\* C11: every access heap[j] that ci_search makes, in the scan, the heap
\* build, the root comparison and replacement and the output copy, has
\* j < K, for every K, K = 0 included, and every corpus.
C11_SlotsInBounds ==
  \A t \in threads :
    pc[t] = "scan" => \A j \in SlotsAhead(t) : j < frame[t].K

====
